---- MODULE Spec2Model ----
(***************************************************************************)
(* A model of package filebuf (src/filebuf.go): a scratch buffer kept in   *)
(* memory until more than MaxBufSize bytes are written to it, and in an    *)
(* unlinked temporary file afterwards.                                      *)
(*                                                                          *)
(* The Go heap (backing arrays of slices), the *os.File objects and the    *)
(* kernel's open file descriptions are modelled explicitly, because Clone  *)
(* copies the slice header and dup(2)s the descriptor: two Filebufs then   *)
(* share a backing array, or one open file description and its offset.     *)
(***************************************************************************)
EXTENDS Integers, Sequences, FiniteSets, TLC

\* ------------------------------------------------------------------ bounds
MaxT == 3          \* largest MaxBufSize tried
MaxLen == 5        \* most bytes ever accepted by one Filebuf
MaxWrite == 2      \* longest p handed to Write
MaxRead == 2       \* longest p handed to Read and ReadAt
MaxSrc == 3        \* longest source handed to ReadFrom
MaxSlack == 1      \* spare capacity append may leave behind the data
CopyBuf == 2       \* io.Copy's transfer buffer (32 KiB in Go), scaled down

Byte == 1..MaxLen  \* the bytes callers write; 0 is the zero byte of make()
Inst == {"o", "c"} \* the Filebuf made by New, and its clone
ArrId == 1..3      \* backing arrays on the heap
HId == 1..2        \* *os.File objects
OId == 1..2        \* open file descriptions (a temporary file each)

VARIABLES
    MaxBufSize,       \* Filebuf.MaxBufSize (Clone copies it, nothing changes it)
    IgnoreDeleteErr,  \* Filebuf.IgnoreDeleteErr
    live,             \* the Filebufs that exist
    buf,              \* buf[i]: the slice header f.buf: [arr, len]; arr = 0 is nil
    file,             \* file[i]: f.file, an *os.File; 0 is nil
    off,              \* off[i]: f.off
    mem,              \* mem[a]: the backing array a, Len(mem[a]) its capacity
    hnd,              \* hnd[h]: the *os.File h: [open, ofd]; ofd = 0: never made
    ofd,              \* ofd[d]: open file description: [data, pos, linked]
    pc,               \* pc[i]: "idle", inside "rf" (ReadFrom) or "wt" (WriteTo), "panic"
    src,              \* src[i]: what the io.Reader of the running ReadFrom still holds
    tot,              \* tot[i]: ReadFrom's local tot
    sink,             \* sink[i]: what the running WriteTo has handed to its io.Writer
    ret,              \* the last call that returned: [inst, op, len, n, err, data, pos],
                      \* data the bytes Read, ReadAt or WriteTo handed to the caller,
                      \* pos the position a ReadAt was given
    written,          \* history: written[i], the bytes the Filebuf accepted, in order
    got,              \* history: got[i], the bytes Read returned since the last Rewind
    done,             \* history: done[i], Read reported io.EOF since the last Rewind
    prev              \* history: prev[i], <<got[i]>> of the last pass read to io.EOF

vars == <<MaxBufSize, IgnoreDeleteErr, live, buf, file, off, mem, hnd, ofd,
          pc, src, tot, sink, ret, written, got, done, prev>>

\* ----------------------------------------------------------------- helpers
Min(a, b) == IF a < b THEN a ELSE b

Take(s, n) == SubSeq(s, 1, Min(n, Len(s)))

Drop(s, n) == SubSeq(s, n + 1, Len(s))

Zeros(n) == [k \in 1..n |-> 0]

\* s with p stored from index pos + 1 on (a hole is filled with zero bytes)
Overwrite(s, pos, p) ==
    LET n == IF pos + Len(p) > Len(s) THEN pos + Len(p) ELSE Len(s)
    IN [k \in 1..n |-> IF k > pos /\ k <= pos + Len(p) THEN p[k - pos]
                       ELSE IF k <= Len(s) THEN s[k] ELSE 0]

NilBuf == [arr |-> 0, len |-> 0]

NoHnd == [open |-> FALSE, ofd |-> 0]

NoOfd == [data |-> <<>>, pos |-> 0, linked |-> FALSE]

NoFault == [at |-> "none", k |-> 0]

\* len(f.buf), cap(f.buf) and the bytes f.buf[0:len]
BufLen(i) == buf[i].len

BufCap(i) == IF buf[i].arr = 0 THEN 0 ELSE Len(mem[buf[i].arr])

BufBytes(i) == IF buf[i].arr = 0 THEN <<>> ELSE SubSeq(mem[buf[i].arr], 1, buf[i].len)

\* The heap after a call: an array no Filebuf refers to any more is collected.
Collect(b, m) == [a \in ArrId |-> IF \E i \in Inst : b[i].arr = a THEN m[a] ELSE <<>>]

\* make: an array nobody refers to.
NewArr == CHOOSE a \in ArrId : \A i \in Inst : buf[i].arr # a

NewHnd == CHOOSE h \in HId : hnd[h].ofd = 0

NewOfd == CHOOSE d \in OId : \A h \in HId : ~(hnd[h].open /\ hnd[h].ofd = d)

Idle(i) == i \in live /\ \A j \in Inst : pc[j] # "panic"

\* What the Filebuf holds, whichever the representation.
Content(i) ==
    IF file[i] # 0 THEN (IF hnd[file[i]].open THEN ofd[hnd[file[i]].ofd].data ELSE <<>>)
    ELSE BufBytes(i)

Ret(i, op, k, n, err, data) ==
    [inst |-> i, op |-> op, len |-> k, n |-> n, err |-> err, data |-> data, pos |-> 0]

\* ------------------------------------------------------------- os.File
\* (*os.File).Write(p) on handle h, with hn the handles and o the descriptions: at
\* the description's offset, which it advances.  A failing write stores fault.k
\* bytes of p.  Result: [ofd, n, err].
FileWrite(h, hn, o, p, fault) ==
    IF ~hn[h].open THEN [ofd |-> o, n |-> 0, err |-> "err"]
    ELSE LET d == hn[h].ofd
             k == IF fault.at = "write" THEN Min(fault.k, Len(p)) ELSE Len(p)
             q == SubSeq(p, 1, k)
         IN [ofd |-> [o EXCEPT ![d] = [@ EXCEPT !.data = Overwrite(@, o[d].pos, q),
                                                !.pos = @ + k]],
             n |-> k,
             err |-> IF fault.at = "write" THEN "err" ELSE "nil"]

\* (*os.File).ReadAt(p, pos) with len(p) = k: pread(2) until p is full; io.EOF
\* whenever fewer than k bytes were there.  Result: [data, err].
FileReadAt(h, k, pos) ==
    IF ~hnd[h].open THEN [data |-> <<>>, err |-> "err"]
    ELSE LET d == ofd[hnd[h].ofd].data
             e == Min(pos + k, Len(d))
             bytes == IF pos >= Len(d) THEN <<>> ELSE SubSeq(d, pos + 1, e)
         IN [data |-> bytes, err |-> IF Len(bytes) < k THEN "EOF" ELSE "nil"]

\* (*os.File).Seek(pos, 0) on handle h.  Result: [ofd, err].
FileSeek(h, pos) ==
    IF ~hnd[h].open THEN [ofd |-> ofd, err |-> "err"]
    ELSE [ofd |-> [ofd EXCEPT ![hnd[h].ofd].pos = pos], err |-> "nil"]

\* (*os.File).Read(p) with len(p) = k on handle h: at the description's offset,
\* which it advances.  Result: [ofd, data, err].
FileRead(h, k) ==
    IF ~hnd[h].open THEN [ofd |-> ofd, data |-> <<>>, err |-> "err"]
    ELSE LET d == hnd[h].ofd
             bytes == Take(Drop(ofd[d].data, ofd[d].pos), k)
         IN [ofd |-> [ofd EXCEPT ![d].pos = @ + Len(bytes)],
             data |-> bytes,
             err |-> IF bytes = <<>> /\ k > 0 THEN "EOF" ELSE "nil"]

\* (*os.File).Close() on handle h; the description goes with its last handle.
\* Result: [hnd, ofd, err].
FileClose(h) ==
    IF ~hnd[h].open THEN [hnd |-> hnd, ofd |-> ofd, err |-> "err"]
    ELSE LET d == hnd[h].ofd
             last == \A g \in HId : g # h => ~(hnd[g].open /\ hnd[g].ofd = d)
         IN [hnd |-> [hnd EXCEPT ![h].open = FALSE],
             ofd |-> IF last THEN [ofd EXCEPT ![d] = NoOfd] ELSE ofd,
             err |-> "nil"]

\* ------------------------------------------------------------- Filebuf
\* moveToFile without line 63: the bytes held in memory are not copied to the file
moveToFileNoCopy(b, fault) ==
    IF fault.at = "create"
    THEN [file |-> 0, hnd |-> hnd, ofd |-> ofd, err |-> "err"]
    ELSE LET h == NewHnd
             d == NewOfd
             removed == fault.at # "remove"
             stop == ~removed /\ ~IgnoreDeleteErr
         IN [file |-> h,
             hnd |-> [hnd EXCEPT ![h] = [open |-> TRUE, ofd |-> d]],
             ofd |-> [ofd EXCEPT ![d] = [data |-> <<>>, pos |-> 0, linked |-> ~removed]],
             err |-> IF stop THEN "err" ELSE "nil"]

\* moveToFile with lines 60-62 after line 63: TempFile, Write(f.buf), Remove
moveToFileCopyFirst(b, fault) ==
    IF fault.at = "create"
    THEN [file |-> 0, hnd |-> hnd, ofd |-> ofd, err |-> "err"]
    ELSE LET h == NewHnd
             d == NewOfd
             removed == fault.at # "remove"
             stop == ~removed /\ ~IgnoreDeleteErr
             k == IF fault.at = "copy" THEN Min(fault.k, Len(b)) ELSE Len(b)
             data == SubSeq(b, 1, k)
         IN [file |-> h,
             hnd |-> [hnd EXCEPT ![h] = [open |-> TRUE, ofd |-> d]],
             ofd |-> [ofd EXCEPT ![d] = [data |-> data, pos |-> Len(data),
                                         linked |-> ~removed]],
             err |-> IF stop \/ fault.at = "copy" THEN "err" ELSE "nil"]

\* moveToFile with f.buf holding b: TempFile, Remove, Write(f.buf).
\* Result: [file, hnd, ofd, err].
moveToFile(b, fault) ==
    IF fault.at = "create"
    THEN [file |-> 0, hnd |-> hnd, ofd |-> ofd, err |-> "err"]
    ELSE LET h == NewHnd
             d == NewOfd
             removed == fault.at # "remove"
             stop == ~removed /\ ~IgnoreDeleteErr
             k == IF fault.at = "copy" THEN Min(fault.k, Len(b)) ELSE Len(b)
             data == IF stop THEN <<>> ELSE SubSeq(b, 1, k)
         IN [file |-> h,
             hnd |-> [hnd EXCEPT ![h] = [open |-> TRUE, ofd |-> d]],
             ofd |-> [ofd EXCEPT ![d] = [data |-> data, pos |-> Len(data),
                                         linked |-> ~removed]],
             err |-> IF stop \/ fault.at = "copy" THEN "err" ELSE "nil"]

\* appendBuffer's slice expression f.buf[:l+len(p)] is in range
appendInRange(i, p) ==
    BufLen(i) + Len(p) <= (IF buf[i].arr = 0 THEN MaxBufSize ELSE BufCap(i))

\* Write's test with >= for >: the file is used as soon as the limit is reached
mustMoveAtLimit(i, p) == MaxBufSize > 0 /\ BufLen(i) + Len(p) >= MaxBufSize

\* Write's test for moving to the file
mustMove(i, p) == MaxBufSize > 0 /\ BufLen(i) + Len(p) > MaxBufSize

\* Write(p)
Write(i, p, fault) ==
    /\ Idle(i) /\ pc[i] = "idle"
    /\ Len(written[i]) + Len(p) <= MaxLen
    /\ IF file[i] # 0
       THEN LET w == FileWrite(file[i], hnd, ofd, p, fault)
            IN /\ ofd' = w.ofd
               /\ ret' = Ret(i, "Write", Len(p), w.n, w.err, <<>>)
               /\ written' = [written EXCEPT ![i] = @ \o SubSeq(p, 1, w.n)]
               /\ UNCHANGED <<buf, mem, file, hnd, pc>>
       ELSE IF mustMove(i, p)
       THEN LET m == moveToFile(BufBytes(i), fault)
                w == FileWrite(m.file, m.hnd, m.ofd, p, fault)
                b == [buf EXCEPT ![i] = NilBuf]
            IN IF m.err # "nil"
               THEN /\ file' = [file EXCEPT ![i] = m.file]
                    /\ hnd' = m.hnd
                    /\ ofd' = m.ofd
                    /\ ret' = Ret(i, "Write", Len(p), 0, "err", <<>>)
                    /\ UNCHANGED <<buf, mem, written, pc>>
               ELSE /\ file' = [file EXCEPT ![i] = m.file]
                    /\ hnd' = m.hnd
                    /\ ofd' = w.ofd
                    /\ buf' = b
                    /\ mem' = Collect(b, mem)
                    /\ ret' = Ret(i, "Write", Len(p), w.n, w.err, <<>>)
                    /\ written' = [written EXCEPT ![i] = @ \o SubSeq(p, 1, w.n)]
                    /\ UNCHANGED pc
       ELSE IF ~appendInRange(i, p)
       THEN \* slice bounds out of range: the make (if any) is done, then panic
            LET a == IF buf[i].arr = 0 THEN NewArr ELSE buf[i].arr
            IN /\ buf' = [buf EXCEPT ![i] = [arr |-> a, len |-> BufLen(i)]]
               /\ mem' = IF buf[i].arr = 0 THEN [mem EXCEPT ![a] = Zeros(MaxBufSize)] ELSE mem
               /\ pc' = [pc EXCEPT ![i] = "panic"]
               /\ ret' = Ret(i, "Write", Len(p), 0, "panic", <<>>)
               /\ UNCHANGED <<file, hnd, ofd, written>>
       ELSE LET a == IF buf[i].arr = 0 THEN NewArr ELSE buf[i].arr
                old == IF buf[i].arr = 0 THEN Zeros(MaxBufSize) ELSE mem[a]
            IN /\ buf' = [buf EXCEPT ![i] = [arr |-> a, len |-> BufLen(i) + Len(p)]]
               /\ mem' = [mem EXCEPT ![a] = Overwrite(old, BufLen(i), p)]
               /\ ret' = Ret(i, "Write", Len(p), Len(p), "nil", <<>>)
               /\ written' = [written EXCEPT ![i] = @ \o p]
               /\ UNCHANGED <<file, hnd, ofd, pc>>
    /\ UNCHANGED <<MaxBufSize, IgnoreDeleteErr, live, off, src, tot, sink, got, done, prev>>

\* copyBuffer with len(p) = k and f.off = at: the bytes copied into p (their
\* number is what it returns)
copyBuffer(i, k, at) ==
    LET end == IF at + k > BufLen(i) THEN BufLen(i) ELSE at + k
    IN SubSeq(BufBytes(i), at + 1, end)

\* Read's body with > for >= at line 112: no io.EOF with the cursor at the end
readOffByOne(i, k, at) ==
    IF file[i] # 0 THEN FileReadAt(file[i], k, at)
    ELSE IF at > BufLen(i) THEN [data |-> <<>>, err |-> "EOF"]
    ELSE [data |-> copyBuffer(i, k, at), err |-> "nil"]

\* The body of Read(p) with len(p) = k and f.off = at.  Result: [data, err].
read(i, k, at) ==
    IF file[i] # 0 THEN FileReadAt(file[i], k, at)
    ELSE IF at >= BufLen(i) THEN [data |-> <<>>, err |-> "EOF"]
    ELSE [data |-> copyBuffer(i, k, at), err |-> "nil"]

\* Read advancing the cursor by len(p) instead of by the count n
readOffByLen(i, k, n) == off[i] + k

\* the cursor Read leaves after n of the k bytes asked for: f.off += int64(n)
readOff(i, k, n) == off[i] + n

\* Read(p) with len(p) = k
Read(i, k) ==
    /\ Idle(i) /\ pc[i] = "idle"
    /\ LET r == read(i, k, off[i])
       IN /\ off' = [off EXCEPT ![i] = readOff(i, k, Len(r.data))]
          /\ ret' = Ret(i, "Read", k, Len(r.data), r.err, r.data)
          /\ got' = [got EXCEPT ![i] = @ \o r.data]
          /\ done' = [done EXCEPT ![i] = @ \/ r.err = "EOF"]
    /\ UNCHANGED <<MaxBufSize, IgnoreDeleteErr, live, buf, file, mem, hnd, ofd,
                   pc, src, tot, sink, written, prev>>

\* ReadAt without line 125: the cursor stays behind the bytes read at pos
readAtOffLeft(i, pos, n) == pos + n

\* the cursor ReadAt leaves after reading n bytes at pos: the one it saved
readAtOff(i, pos, n) == off[i]

\* ReadAt(p, pos) with len(p) = k: f.off is put back after the Read
ReadAt(i, k, pos) ==
    /\ Idle(i) /\ pc[i] = "idle"
    /\ LET r == read(i, k, pos)
       IN /\ ret' = [Ret(i, "ReadAt", k, Len(r.data), r.err, r.data) EXCEPT !.pos = pos]
          /\ off' = [off EXCEPT ![i] = readAtOff(i, pos, Len(r.data))]
    /\ UNCHANGED <<MaxBufSize, IgnoreDeleteErr, live, buf, file, mem, hnd, ofd,
                   pc, src, tot, sink, written, got, done, prev>>

\* Rewind without line 184: the cursor stays where it is
rewindOffKeep(i) == off[i]

\* the cursor Rewind leaves
rewindOff(i) == 0

\* Rewind()
Rewind(i) ==
    /\ Idle(i) /\ pc[i] = "idle"
    /\ off' = [off EXCEPT ![i] = rewindOff(i)]
    /\ IF file[i] # 0
       THEN LET s == FileSeek(file[i], 0)
            IN /\ ofd' = s.ofd
               /\ ret' = Ret(i, "Rewind", 0, 0, s.err, <<>>)
       ELSE /\ ofd' = ofd
            /\ ret' = Ret(i, "Rewind", 0, 0, "nil", <<>>)
    /\ got' = [got EXCEPT ![i] = <<>>]
    /\ done' = [done EXCEPT ![i] = FALSE]
    /\ prev' = [prev EXCEPT ![i] = IF done[i] THEN <<got[i]>> ELSE @]
    /\ UNCHANGED <<MaxBufSize, IgnoreDeleteErr, live, buf, file, mem, hnd,
                   pc, src, tot, sink, written>>

\* The window f.buf[len(f.buf) : cap(f.buf)-len(f.buf)] that ReadFrom hands to
\* r.Read: from index winLo up to index winHi of the backing array.
winLo(i) == BufLen(i)

winHi(i) == BufCap(i) - BufLen(i)

\* append(f.buf, r...) with r not empty: in place when the capacity allows, else
\* into a new array with room for slack more bytes.  Result: [buf, mem].
appendBytes(i, r, slack) ==
    IF buf[i].arr # 0 /\ BufLen(i) + Len(r) <= BufCap(i)
    THEN [buf |-> [buf EXCEPT ![i].len = @ + Len(r)],
          mem |-> [mem EXCEPT ![buf[i].arr] = Overwrite(@, BufLen(i), r)]]
    ELSE LET a == NewArr
             b == [buf EXCEPT ![i] = [arr |-> a, len |-> BufLen(i) + Len(r)]]
         IN [buf |-> b,
             mem |-> Collect(b, [mem EXCEPT ![a] = BufBytes(i) \o r \o Zeros(slack)])]

\* ReadFrom(r), with r holding R: the whole call when the Filebuf is in the file
\* or MaxBufSize is 0; else up to the loop of line 146, which ReadFromStep runs.
ReadFrom(i, R, slack, fault) ==
    /\ Idle(i) /\ pc[i] = "idle"
    /\ Len(written[i]) + Len(R) <= MaxLen
    /\ IF file[i] # 0
       THEN LET w == FileWrite(file[i], hnd, ofd, R, fault)
            IN /\ ofd' = w.ofd
               /\ ret' = Ret(i, "ReadFrom", Len(R), w.n, w.err, <<>>)
               /\ written' = [written EXCEPT ![i] = @ \o SubSeq(R, 1, w.n)]
               /\ src' = [src EXCEPT ![i] = Drop(R, w.n)]
               /\ UNCHANGED <<buf, mem, pc, tot>>
       ELSE IF MaxBufSize = 0
       THEN LET a == IF R = <<>> THEN [buf |-> buf, mem |-> mem]
                     ELSE appendBytes(i, R, slack)
            IN /\ buf' = a.buf
               /\ mem' = a.mem
               /\ ret' = Ret(i, "ReadFrom", Len(R), Len(R), "nil", <<>>)
               /\ written' = [written EXCEPT ![i] = @ \o R]
               /\ src' = [src EXCEPT ![i] = <<>>]
               /\ UNCHANGED <<ofd, pc, tot>>
       ELSE LET a == IF buf[i].arr = 0 THEN NewArr ELSE buf[i].arr
            IN /\ buf' = [buf EXCEPT ![i] = [arr |-> a, len |-> BufLen(i)]]
               /\ mem' = IF buf[i].arr = 0 THEN [mem EXCEPT ![a] = Zeros(MaxBufSize)] ELSE mem
               /\ pc' = [pc EXCEPT ![i] = "rf"]
               /\ src' = [src EXCEPT ![i] = R]
               /\ tot' = [tot EXCEPT ![i] = 0]
               /\ UNCHANGED <<ofd, ret, written>>
    /\ UNCHANGED <<MaxBufSize, IgnoreDeleteErr, live, file, off, hnd, sink, got, done, prev>>

\* One turn of ReadFrom's loop (lines 146-159): r.Read stores m bytes in the
\* window and reports io.EOF or not; with the buffer full, the rest of the call
\* (lines 160-166).  A reader returns at least one byte when it has one and the
\* window has room, io.EOF only with or after its last byte, and may answer an
\* empty window with (0, nil) for ever.
ReadFromStep(i, m, eof, fault) ==
    /\ i \in live /\ pc[i] = "rf" /\ \A j \in Inst : pc[j] # "panic"
    /\ IF winLo(i) > winHi(i)
       THEN \* slice bounds out of range
            /\ m = 0 /\ ~eof
            /\ pc' = [pc EXCEPT ![i] = "panic"]
            /\ ret' = Ret(i, "ReadFrom", tot[i] + Len(src[i]), tot[i], "panic", <<>>)
            /\ UNCHANGED <<buf, mem, file, hnd, ofd, src, tot, written>>
       ELSE LET w == winHi(i) - winLo(i)
                a == buf[i].arr
                chunk == SubSeq(src[i], 1, m)
                rest == Drop(src[i], m)
                b1 == [buf EXCEPT ![i].len = @ + m]
                m1 == [mem EXCEPT ![a] = Overwrite(@, winLo(i), chunk)]
                t1 == tot[i] + m
                all == tot[i] + Len(src[i])
                failed == fault.at = "src"
            IN /\ m <= Min(w, Len(src[i]))
               /\ (w > 0 /\ src[i] # <<>>) => m >= 1
               /\ eof => (m = Len(src[i]) /\ ~failed)
               /\ (w > 0 /\ src[i] = <<>>) => (eof \/ failed)
               /\ written' = [written EXCEPT ![i] = @ \o chunk
                                \o (IF ~eof /\ ~failed /\ b1[i].len = BufCap(i)
                                       /\ moveToFile(<<>>, fault).err = "nil"
                                    THEN (IF fault.at = "write" THEN Take(rest, fault.k) ELSE rest)
                                    ELSE <<>>)]
               /\ IF eof \/ failed
                  THEN /\ buf' = b1
                       /\ mem' = m1
                       /\ src' = [src EXCEPT ![i] = rest]
                       /\ tot' = [tot EXCEPT ![i] = t1]
                       /\ pc' = [pc EXCEPT ![i] = "idle"]
                       /\ ret' = Ret(i, "ReadFrom", all, t1, IF eof THEN "nil" ELSE "err", <<>>)
                       /\ UNCHANGED <<file, hnd, ofd>>
                  ELSE IF b1[i].len = BufCap(i)
                  THEN LET mv == moveToFile(SubSeq(m1[a], 1, b1[i].len), fault)
                           wr == FileWrite(mv.file, mv.hnd, mv.ofd, rest, fault)
                           b2 == [buf EXCEPT ![i] = NilBuf]
                       IN IF mv.err # "nil"
                          THEN /\ buf' = b1
                               /\ mem' = m1
                               /\ src' = [src EXCEPT ![i] = rest]
                               /\ tot' = [tot EXCEPT ![i] = t1]
                               /\ pc' = [pc EXCEPT ![i] = "idle"]
                               /\ file' = [file EXCEPT ![i] = mv.file]
                               /\ hnd' = mv.hnd
                               /\ ofd' = mv.ofd
                               /\ ret' = Ret(i, "ReadFrom", all, 0, "err", <<>>)
                          ELSE /\ buf' = b2
                               /\ mem' = Collect(b2, m1)
                               /\ src' = [src EXCEPT ![i] = Drop(rest, wr.n)]
                               /\ tot' = [tot EXCEPT ![i] = t1]
                               /\ pc' = [pc EXCEPT ![i] = "idle"]
                               /\ file' = [file EXCEPT ![i] = mv.file]
                               /\ hnd' = mv.hnd
                               /\ ofd' = wr.ofd
                               /\ ret' = Ret(i, "ReadFrom", all, wr.n + b1[i].len, wr.err, <<>>)
                  ELSE /\ buf' = b1
                       /\ mem' = m1
                       /\ src' = [src EXCEPT ![i] = rest]
                       /\ tot' = [tot EXCEPT ![i] = t1]
                       /\ UNCHANGED <<pc, ret, file, hnd, ofd>>
    /\ UNCHANGED <<MaxBufSize, IgnoreDeleteErr, live, off, sink, got, done, prev>>

\* WriteTo from the start whatever the cursor: "the full contents of the buffer"
writeToFromStart(i) == 0

\* where WriteTo starts: at f.off (the Seek of line 173, the slice of line 178)
writeToFrom(i) == off[i]

\* WriteTo(w): the whole call in memory; in the file the Seek of line 173, and
\* WriteToStep runs io.Copy.
WriteTo(i) ==
    /\ Idle(i) /\ pc[i] = "idle"
    /\ IF file[i] # 0
       THEN LET s == FileSeek(file[i], writeToFrom(i))
            IN IF s.err # "nil"
               THEN /\ ret' = Ret(i, "WriteTo", 0, 0, "err", <<>>)
                    /\ UNCHANGED <<ofd, pc, sink>>
               ELSE /\ ofd' = s.ofd
                    /\ pc' = [pc EXCEPT ![i] = "wt"]
                    /\ sink' = [sink EXCEPT ![i] = <<>>]
                    /\ UNCHANGED ret
       ELSE IF writeToFrom(i) > BufLen(i)
       THEN \* f.buf[f.off:]: slice bounds out of range
            /\ pc' = [pc EXCEPT ![i] = "panic"]
            /\ ret' = Ret(i, "WriteTo", 0, 0, "panic", <<>>)
            /\ UNCHANGED <<ofd, sink>>
       ELSE /\ ret' = Ret(i, "WriteTo", 0, BufLen(i) - writeToFrom(i), "nil",
                          Drop(BufBytes(i), writeToFrom(i)))
            /\ UNCHANGED <<ofd, pc, sink>>
    /\ UNCHANGED <<MaxBufSize, IgnoreDeleteErr, live, buf, file, off, mem, hnd,
                   src, tot, written, got, done, prev>>

\* One turn of io.Copy(w, f.file) (line 176): Read up to CopyBuf bytes at the
\* description's offset and hand them to w; at the end of the file, return.
WriteToStep(i) ==
    /\ i \in live /\ pc[i] = "wt" /\ \A j \in Inst : pc[j] # "panic"
    /\ Len(sink[i]) <= MaxLen  \* bound: another Filebuf can move the offset back for ever
    /\ LET r == FileRead(file[i], CopyBuf)
       IN IF r.err # "nil"
          THEN /\ pc' = [pc EXCEPT ![i] = "idle"]
               /\ ret' = Ret(i, "WriteTo", 0, Len(sink[i]),
                             IF r.err = "EOF" THEN "nil" ELSE "err", sink[i])
               /\ sink' = [sink EXCEPT ![i] = <<>>]
               /\ UNCHANGED ofd
          ELSE /\ ofd' = r.ofd
               /\ sink' = [sink EXCEPT ![i] = @ \o r.data]
               /\ UNCHANGED <<pc, ret>>
    /\ UNCHANGED <<MaxBufSize, IgnoreDeleteErr, live, buf, file, off, mem, hnd,
                   src, tot, written, got, done, prev>>

\* Clone with lines 204-209 left out: the clone keeps the *os.File of the original
cloneFileShared(i, fault) == [file |-> file[i], hnd |-> hnd, err |-> "nil"]

\* Clone's file (lines 203-213): a new *os.File on a dup of the descriptor, which
\* refers to the same open file description.  Result: [file, hnd, err].
cloneFile(i, fault) ==
    IF file[i] = 0 THEN [file |-> 0, hnd |-> hnd, err |-> "nil"]
    ELSE IF ~hnd[file[i]].open \/ fault.at = "dup"
    THEN [file |-> 0, hnd |-> hnd, err |-> "err"]
    ELSE LET h == NewHnd
         IN [file |-> h,
             hnd |-> [hnd EXCEPT ![h] = [open |-> TRUE, ofd |-> hnd[file[i]].ofd]],
             err |-> "nil"]

\* a clone that starts at the beginning, whatever the original has read
cloneOffZero(i) == 0

\* the cursor of the clone: fb := *f copies f.off (line 202)
cloneOff(i) == off[i]

\* Clone(): j is the new Filebuf
Clone(i, j, fault) ==
    /\ Idle(i) /\ pc[i] = "idle"
    /\ j \notin live
    /\ LET c == cloneFile(i, fault)
       IN IF c.err # "nil"
          THEN /\ ret' = Ret(i, "Clone", 0, 0, "err", <<>>)
               /\ UNCHANGED <<live, buf, file, off, hnd, written, got, done, prev>>
          ELSE /\ live' = live \cup {j}
               /\ buf' = [buf EXCEPT ![j] = buf[i]]
               /\ file' = [file EXCEPT ![j] = c.file]
               /\ off' = [off EXCEPT ![j] = cloneOff(i)]
               /\ hnd' = c.hnd
               /\ ret' = Ret(i, "Clone", 0, 0, "nil", <<>>)
               /\ written' = [written EXCEPT ![j] = written[i]]
               /\ got' = [got EXCEPT ![j] = <<>>]
               /\ done' = [done EXCEPT ![j] = FALSE]
               /\ prev' = [prev EXCEPT ![j] = <<>>]
    /\ UNCHANGED <<MaxBufSize, IgnoreDeleteErr, mem, ofd, pc, src, tot, sink>>

\* Close()
Close(i) ==
    /\ Idle(i) /\ pc[i] = "idle"
    /\ IF file[i] # 0
       THEN LET c == FileClose(file[i])
            IN /\ hnd' = c.hnd
               /\ ofd' = c.ofd
               /\ ret' = Ret(i, "Close", 0, 0, c.err, <<>>)
               /\ UNCHANGED <<buf, mem>>
       ELSE LET b == [buf EXCEPT ![i] = NilBuf]
            IN /\ buf' = b
               /\ mem' = Collect(b, mem)
               /\ ret' = Ret(i, "Close", 0, 0, "nil", <<>>)
               /\ UNCHANGED <<hnd, ofd>>
    /\ UNCHANGED <<MaxBufSize, IgnoreDeleteErr, live, file, off, pc, src, tot, sink,
                   written, got, done, prev>>

\* ---------------------------------------------------------- specifications
\* New(size), for every size tried
Init ==
    /\ MaxBufSize \in 0..MaxT
    /\ IgnoreDeleteErr = FALSE
    /\ live = {"o"}
    /\ buf = [i \in Inst |-> NilBuf]
    /\ file = [i \in Inst |-> 0]
    /\ off = [i \in Inst |-> 0]
    /\ mem = [a \in ArrId |-> <<>>]
    /\ hnd = [h \in HId |-> NoHnd]
    /\ ofd = [d \in OId |-> NoOfd]
    /\ pc = [i \in Inst |-> "idle"]
    /\ src = [i \in Inst |-> <<>>]
    /\ tot = [i \in Inst |-> 0]
    /\ sink = [i \in Inst |-> <<>>]
    /\ ret = Ret("o", "New", 0, 0, "nil", <<>>)
    /\ written = [i \in Inst |-> <<>>]
    /\ got = [i \in Inst |-> <<>>]
    /\ done = [i \in Inst |-> FALSE]
    /\ prev = [i \in Inst |-> <<>>]

\* The next n bytes a caller hands to Filebuf i.  The code never looks at the
\* value of a byte, so the bytes of a caller's stream are told apart by numbering
\* them: whatever is lost, repeated, moved or overwritten shows in a comparison.
Chunk(i, n) == [k \in 1..n |-> Len(written[i]) + k]

\* Only Write calls so far (on the Filebuf made by New)
Writing == ret.op \in {"New", "Write"}

\* A writer, then a reader: Write calls, then Rewind and Read calls.
NextWrite ==
    \/ \E n \in 0..MaxWrite : Writing /\ Write("o", Chunk("o", n), NoFault)
    \/ Rewind("o")
    \/ \E k \in 0..MaxRead : ~Writing /\ Read("o", k)

SpecWrite == Init /\ [][NextWrite]_vars

\* Only Write and ReadFrom calls so far
Feeding == ret.op \in {"New", "Write", "ReadFrom"}

\* Write and ReadFrom calls, from readers of every chunking, then Rewind and Read.
NextReadFrom ==
    \/ \E n \in 0..MaxWrite : Feeding /\ Write("o", Chunk("o", n), NoFault)
    \/ \E n \in 0..MaxSrc, slack \in 0..MaxSlack :
          Feeding /\ ReadFrom("o", Chunk("o", n), slack, NoFault)
    \/ \E m \in 0..MaxSrc, eof \in BOOLEAN : ReadFromStep("o", m, eof, NoFault)
    \/ Rewind("o")
    \/ \E k \in 0..MaxRead : ~Feeding /\ Read("o", k)

SpecReadFrom == Init /\ [][NextReadFrom]_vars

\* The running ReadFrom calls its reader once more
ReadFromTurn == \E m \in 0..MaxSrc, eof \in BOOLEAN : ReadFromStep("o", m, eof, NoFault)

\* The same calls, with a ReadFrom that is never suspended for ever: its loop
\* goes on for as long as a turn can change anything.
SpecReadFromFair == Init /\ [][NextReadFrom]_vars /\ WF_vars(ReadFromTurn)

\* What a WriteTo of Filebuf i is to hand to its io.Writer
Unread(i) == Drop(written[i], off[i])

\* The WriteTo of Filebuf i has handed its io.Writer nothing but the next unread
\* bytes so far
SinkSound(i) == sink[i] = Take(Unread(i), Len(sink[i]))

\* A writer, then Clone; then the calls of a reader on the original and the Read
\* and Rewind calls of a reader on the clone, one call at a time, in any order.
NextClone ==
    \/ \E n \in 0..MaxWrite : Writing /\ Write("o", Chunk("o", n), NoFault)
    \/ Writing /\ Clone("o", "c", NoFault)
    \/ \E i \in Inst, k \in 0..MaxRead : "c" \in live /\ pc["o"] = "idle" /\ Read(i, k)
    \/ \E pos \in 0..MaxLen : "c" \in live /\ ReadAt("o", MaxRead, pos)
    \/ \E i \in Inst : "c" \in live /\ pc["o"] = "idle" /\ Rewind(i)
    \/ "c" \in live /\ WriteTo("o")
    \/ WriteToStep("o")
    \/ "c" \in live /\ Close("o")

SpecClone == Init /\ [][NextClone]_vars

\* A writer, then Clone; then two concurrent readers, one on the original and
\* one on the clone, each calling Read and WriteTo: the steps of one WriteTo
\* interleave with the calls and steps of the other reader.  A WriteTo that has
\* handed on a wrong byte is not followed further.
NextReaders ==
    \/ \E n \in 0..MaxWrite : Writing /\ Write("o", Chunk("o", n), NoFault)
    \/ Writing /\ Clone("o", "c", NoFault)
    \/ \E i \in Inst, k \in 1..MaxRead : "c" \in live /\ Read(i, k)
    \/ \E i \in Inst : "c" \in live /\ WriteTo(i)
    \/ \E i \in Inst : SinkSound(i) /\ WriteToStep(i)

SpecReaders == Init /\ [][NextReaders]_vars

\* The failures of a Write: of TempFile, of Remove, of the copy of f.buf after k
\* bytes, of the Write of p after k bytes.
Faults ==
    {NoFault, [at |-> "create", k |-> 0], [at |-> "remove", k |-> 0]}
        \cup {[at |-> a, k |-> k] : a \in {"copy", "write"}, k \in 0..(MaxWrite - 1)}

InitFault ==
    /\ MaxBufSize \in 0..MaxT
    /\ IgnoreDeleteErr \in BOOLEAN
    /\ live = {"o"}
    /\ buf = [i \in Inst |-> NilBuf]
    /\ file = [i \in Inst |-> 0]
    /\ off = [i \in Inst |-> 0]
    /\ mem = [a \in ArrId |-> <<>>]
    /\ hnd = [h \in HId |-> NoHnd]
    /\ ofd = [d \in OId |-> NoOfd]
    /\ pc = [i \in Inst |-> "idle"]
    /\ src = [i \in Inst |-> <<>>]
    /\ tot = [i \in Inst |-> 0]
    /\ sink = [i \in Inst |-> <<>>]
    /\ ret = Ret("o", "New", 0, 0, "nil", <<>>)
    /\ written = [i \in Inst |-> <<>>]
    /\ got = [i \in Inst |-> <<>>]
    /\ done = [i \in Inst |-> FALSE]
    /\ prev = [i \in Inst |-> <<>>]

\* Write calls that may fail, then Rewind and Read.
NextFault ==
    \/ \E n \in 0..MaxWrite, fault \in Faults :
          Writing /\ Write("o", Chunk("o", n), fault)
    \/ Rewind("o")
    \/ \E k \in 0..MaxRead : ~Writing /\ Read("o", k)

SpecFault == InitFault /\ [][NextFault]_vars

\* The failures of a ReadFrom: those of a Write, and of the reader
SrcFaults == Faults \cup {[at |-> "src", k |-> 0]}

\* Write calls, ReadFrom calls in which the file or the reader may fail, then
\* Rewind and Read.
NextReadFromFault ==
    \/ \E n \in 0..MaxWrite : Feeding /\ Write("o", Chunk("o", n), NoFault)
    \/ \E n \in 0..MaxSrc, fault \in SrcFaults :
          Feeding /\ ReadFrom("o", Chunk("o", n), 0, fault)
    \/ \E m \in 0..MaxSrc, eof \in BOOLEAN, fault \in SrcFaults :
          ReadFromStep("o", m, eof, fault)
    \/ Rewind("o")
    \/ \E k \in 0..MaxRead : ~Feeding /\ Read("o", k)

SpecReadFromFault == InitFault /\ [][NextReadFromFault]_vars

\* Write and ReadFrom calls, in any order, up to the first that fails, the file
\* or the reader failing in any way: every way a Filebuf moves to the file.
NextMove ==
    \/ \E n \in 0..MaxWrite, fault \in Faults :
          ret.err = "nil" /\ Write("o", Chunk("o", n), fault)
    \/ \E n \in 0..MaxSrc, fault \in SrcFaults :
          ret.err = "nil" /\ ReadFrom("o", Chunk("o", n), 0, fault)
    \/ \E m \in 0..MaxSrc, eof \in BOOLEAN, fault \in SrcFaults :
          ReadFromStep("o", m, eof, fault)

SpecMove == InitFault /\ [][NextMove]_vars

\* Only Write and Rewind calls so far
Rewriting == ret.op \in {"New", "Write", "Rewind"}

\* Write and Rewind calls in any order, then Read calls.
NextWriteRewind ==
    \/ \E n \in 0..MaxWrite : Rewriting /\ Write("o", Chunk("o", n), NoFault)
    \/ Rewriting /\ Rewind("o")
    \/ \E k \in 1..MaxRead : ret.op \in {"Rewind", "Read"} /\ Read("o", k)

SpecWriteRewind == Init /\ [][NextWriteRewind]_vars

\* A writer, then a reader that calls Read, WriteTo and Rewind.
NextWriteTo ==
    \/ \E n \in 0..MaxWrite : Writing /\ Write("o", Chunk("o", n), NoFault)
    \/ \E k \in 0..MaxRead : Len(written["o"]) > 0 /\ Read("o", k)
    \/ Len(written["o"]) > 0 /\ WriteTo("o")
    \/ WriteToStep("o")
    \/ ~Writing /\ Rewind("o")

SpecWriteTo == Init /\ [][NextWriteTo]_vars

\* No call is running
AllIdle == \A i \in Inst : pc[i] = "idle"

\* Any calls, one at a time and in any order, on the Filebuf made by New: Write,
\* ReadFrom, Read, ReadAt, WriteTo, Rewind, and Clone.  Once cloned, it is written
\* to and read further, and its clone is read and rewound.
NextCursor ==
    \/ \E n \in 1..MaxWrite :
          AllIdle /\ Len(written["o"]) + n <= MaxT /\ Write("o", Chunk("o", n), NoFault)
    \/ \E n \in 0..MaxSrc :
          AllIdle /\ Len(written["o"]) + n <= MaxT
                  /\ ReadFrom("o", Chunk("o", n), 0, NoFault)
    \/ \E m \in 0..MaxSrc, eof \in BOOLEAN : ReadFromStep("o", m, eof, NoFault)
    \/ AllIdle /\ Clone("o", "c", NoFault)
    \/ \E k \in 0..MaxRead : AllIdle /\ ("c" \in live => k = MaxRead) /\ Read("o", k)
    \/ \E k \in {0, MaxRead} : AllIdle /\ Read("c", k)
    \/ \E pos \in {0, MaxLen + 1} : AllIdle /\ "c" \notin live /\ ReadAt("o", MaxRead, pos)
    \/ AllIdle /\ "c" \notin live /\ WriteTo("o")
    \/ WriteToStep("o")
    \/ \E i \in Inst : AllIdle /\ (i = "c" <=> "c" \in live) /\ Rewind(i)

SpecCursor == Init /\ [][NextCursor]_vars

\* Write, ReadFrom, Read, Rewind and Close calls in any order, one at a time:
\* a Filebuf that is used on after Close.
NextClose ==
    \/ \E n \in 0..MaxWrite : Write("o", Chunk("o", n), NoFault)
    \/ \E n \in 0..MaxSrc : ReadFrom("o", Chunk("o", n), 0, NoFault)
    \/ \E m \in 0..MaxSrc, eof \in BOOLEAN : ReadFromStep("o", m, eof, NoFault)
    \/ Read("o", MaxRead)
    \/ Rewind("o")
    \/ Close("o")

SpecClose == Init /\ [][NextClose]_vars

\* The failure of dup(2) in Clone
DupFault == [at |-> "dup", k |-> 0]

\* A writer, then a reader that calls Read and Rewind, and at some moment Clone,
\* which may fail; then a reader on the clone too, one call at a time.
NextCloneAt ==
    \/ \E n \in 0..MaxWrite : Writing /\ Write("o", Chunk("o", n), NoFault)
    \/ \E k \in 1..MaxRead : Len(written["o"]) > 0 /\ Read("o", k)
    \/ ~Writing /\ Rewind("o")
    \/ \E fault \in {NoFault, DupFault} : ~Writing /\ Clone("o", "c", fault)
    \/ \E k \in 1..MaxRead : Read("c", k)
    \/ Rewind("c")

SpecCloneAt == Init /\ [][NextCloneAt]_vars

\* A writer, then a reader that calls Read, ReadAt at any position, and Rewind.
NextReadAt ==
    \/ \E n \in 0..MaxWrite : Writing /\ Write("o", Chunk("o", n), NoFault)
    \/ ~Writing /\ Rewind("o")
    \/ \E k \in 0..MaxRead : ~Writing /\ Read("o", k)
    \/ \E k \in 0..MaxRead, pos \in 0..(MaxLen + 1) :
          Len(written["o"]) > 0 /\ ReadAt("o", k, pos)

SpecReadAt == Init /\ [][NextReadAt]_vars

\* ------------------------------------------------------------------ claims
\* The bytes of written[i] from index a + 1 to a + n
Slice(s, a, n) == SubSeq(s, a + 1, Min(a + n, Len(s)))

\* C1: round trip.  With MaxBufSize > 0, after any successful Write calls, Rewind
\* and Read calls up to io.EOF return exactly the bytes written, as many as were
\* written, and no Read fails on the way, in memory and in the file.
C1_RoundTrip ==
    MaxBufSize > 0 =>
        /\ ret.op = "Read" => ret.err \in {"nil", "EOF"}
        /\ got["o"] = Take(written["o"], Len(got["o"]))
        /\ done["o"] => got["o"] = written["o"]

C1_Witness ==
    /\ MaxBufSize > 0 /\ done["o"] /\ file["o"] # 0
    /\ Len(written["o"]) > MaxBufSize + 1
    /\ got["o"] = written["o"]

\* C2: threshold.  With MaxBufSize = T > 0, after any Write calls the Filebuf is
\* in the file exactly when more than T bytes were written.
C2_Threshold ==
    (MaxBufSize > 0 /\ Writing) =>
        /\ file["o"] # 0 <=> Len(written["o"]) > MaxBufSize
        /\ file["o"] = 0 => BufBytes("o") = written["o"]
        /\ file["o"] # 0 => buf["o"] = NilBuf /\ Content("o") = written["o"]

C2_Witness ==
    /\ MaxBufSize > 0 /\ ret.op = "Write" /\ ret.n > 0
    /\ Len(written["o"]) = MaxBufSize + 1
    /\ file["o"] # 0

\* No temporary file was ever made
NoFileMade == \A h \in HId : hnd[h] = NoHnd

\* C3 as claimed: with MaxBufSize = T > 0, ReadFrom on an empty Filebuf of a
\* source of T bytes or fewer leaves it in memory, and no temporary file is made.
C3_ExactFitStaysInMemory ==
    (/\ MaxBufSize > 0
     /\ ret.op = "ReadFrom" /\ pc["o"] # "rf"
     /\ ret.len = Len(written["o"])
     /\ ret.len <= MaxBufSize)
        => file["o"] = 0 /\ NoFileMade

\* C4 as claimed: with MaxBufSize = 0 every Write succeeds with count len(p), no
\* file is made, and the bytes are read back exactly.
C4_ZeroIsMemoryOnly ==
    MaxBufSize = 0 =>
        /\ ret.op = "Write" => ret.err = "nil" /\ ret.n = ret.len
        /\ file["o"] = 0
        /\ done["o"] => got["o"] = written["o"]

\* C5 as claimed: with MaxBufSize > 0, whatever the Filebuf held (P) and however
\* the reader cuts its bytes (R), ReadFrom ends without error having taken all of
\* R, and the Filebuf then holds P followed by R.
C5_ReadFromIngestsAll ==
    (MaxBufSize > 0 /\ ret.op = "ReadFrom" /\ pc["o"] # "rf") =>
        /\ ret.err = "nil"
        /\ src["o"] = <<>>
        /\ Content("o") = written["o"]

\* C6: after Write calls and Clone (cursor at 0), whatever a reader calls on the
\* original (Read, ReadAt, Rewind, WriteTo, Close, in any order), the clone read
\* from its start holds all the bytes written: its Read calls never fail, return
\* the written bytes in order, and have returned them all when one reports io.EOF.
C6_CloneIndependent ==
    "c" \in live =>
        /\ off["c"] = Len(got["c"])
        /\ got["c"] = Take(written["c"], Len(got["c"]))
        /\ (ret.inst = "c" /\ ret.op = "Read") => ret.err \in {"nil", "EOF"}
        /\ done["c"] => got["c"] = written["c"]
        /\ read("c", MaxLen, 0).data = written["c"]

C6_Witness ==
    /\ "c" \in live /\ file["c"] # 0
    /\ done["o"] /\ ~hnd[file["o"]].open
    /\ done["c"] /\ got["c"] = written["c"]
    /\ Len(written["c"]) > MaxBufSize

\* C7 as claimed: with the original and its clone in the file and a reader on
\* each, in every interleaving every WriteTo hands on exactly the bytes from the
\* cursor of its own Filebuf to the end, none skipped and none repeated.
C7_IndependentPosition ==
    \A i \in live :
        /\ pc[i] = "wt" => SinkSound(i)
        /\ (ret.op = "WriteTo" /\ ret.inst = i) =>
               ret.err = "nil" /\ ret.data = Unread(i) /\ ret.n = Len(Unread(i))

\* C8 as claimed: a Write that fails while moving to the file leaves the Filebuf
\* in memory with the bytes accepted before; Rewind and Read then return exactly
\* those bytes, and no file that lacks them is ever written to.
C8_AtomicPromotion ==
    /\ (ret.op = "Write" /\ ret.err = "err" /\ BufLen("o") > 0) =>
           file["o"] = 0 /\ BufBytes("o") = written["o"]
    /\ file["o"] # 0 => Content("o") = written["o"]
    /\ done["o"] => got["o"] = written["o"]

\* The cursor before the Read or ReadAt that returned last
Before == off[ret.inst] - ret.n

\* C9 as claimed: Read reports io.EOF only with count 0 and the cursor at or past
\* the end; a Read that returns a byte reports neither io.EOF nor an error.
C9_EOFOnlyWithZero ==
    ret.op = "Read" =>
        /\ ret.err = "EOF" => ret.n = 0 /\ Before >= Len(written[ret.inst])
        /\ ret.n > 0 => ret.err = "nil"

\* C9 as amended: Read returns the min(len(p), total - cursor) bytes at the cursor
\* and advances the cursor by as many.  In memory it reports io.EOF exactly when
\* the cursor is at or past the end (its count is then 0); in the file it reports
\* io.EOF exactly when it returns fewer than len(p) bytes, so together with the
\* last bytes of a short read, and never for an empty p.
C9_EOF ==
    ret.op = "Read" =>
        LET i == ret.inst
            total == Len(written[i])
        IN /\ Before <= total
           /\ ret.n = Min(ret.len, total - Before)
           /\ ret.data = Slice(written[i], Before, ret.n)
           /\ ret.err \in {"nil", "EOF"}
           /\ file[i] = 0 => (ret.err = "EOF" <=> Before >= total)
           /\ file[i] # 0 => (ret.err = "EOF" <=> ret.n < ret.len)

C9_Witness ==
    /\ ret.op = "Read" /\ file[ret.inst] # 0
    /\ ret.n > 0 /\ ret.n < ret.len /\ ret.err = "EOF"

\* C10: Rewind and a pass of Read calls up to io.EOF, twice: both passes return
\* the same bytes (so the same count); and a Rewind right after a Rewind leaves
\* the Filebuf, the heap and the file as the first left them.
C10_SamePass == (done["o"] /\ prev["o"] # <<>>) => got["o"] = prev["o"][1]

C10_RewindTwice ==
    (ret.op = "Rewind" /\ ret'.op = "Rewind" /\ ret'.inst = ret.inst)
        => UNCHANGED <<buf, file, off, mem, hnd, ofd, ret>>

C10_Rewind == [](C10_SamePass) /\ [][C10_RewindTwice]_vars

C10_Witness ==
    /\ done["o"] /\ prev["o"] # <<>> /\ file["o"] # 0
    /\ Len(got["o"]) > MaxBufSize /\ got["o"] = prev["o"][1]

\* C11 as claimed: ReadAt(p, pos) returns the bytes of the stream at pos, and
\* io.EOF with count 0 whenever pos is at or past the end.
C11_EOFAtOrPastEnd ==
    ret.op = "ReadAt" =>
        /\ ret.data = Slice(written[ret.inst], ret.pos, ret.len)
        /\ ret.pos >= Len(written[ret.inst]) => ret.err = "EOF" /\ ret.n = 0

\* What ReadAt returned last: the bytes at pos, as many as p holds or are there;
\* io.EOF with count 0 at or past the end, but in the file not for an empty p.
\* And any Read now returns the bytes at the cursor, as it did before.
C11_Result ==
    ret.op = "ReadAt" =>
        LET i == ret.inst
            total == Len(written[i])
        IN /\ ret.data = Slice(written[i], ret.pos, ret.len)
           /\ ret.n = Len(ret.data)
           /\ ret.err \in {"nil", "EOF"}
           /\ (ret.pos >= total /\ (file[i] = 0 \/ ret.len > 0)) => ret.err = "EOF"
           /\ (ret.pos >= total /\ file[i] # 0 /\ ret.len = 0) => ret.err = "nil"
           /\ off[i] = Len(got[i])
           /\ \A k \in 0..MaxRead : read(i, k, off[i]).data = Slice(written[i], off[i], k)

\* A ReadAt changes nothing of the Filebuf, its cursor included
C11_Frame ==
    (ret'.op = "ReadAt" /\ ret' # ret)
        => UNCHANGED <<buf, file, off, mem, hnd, ofd, written, got, done>>

\* C11 as amended: for any pos >= 0, in memory and in the file, ReadAt returns the
\* bytes at pos and leaves the cursor and the Filebuf as they were, so that the
\* next Read returns what it would have returned; at or past the end it reports
\* io.EOF, except that in the file a ReadAt with an empty p reports no io.EOF.
C11_ReadAt == [](C11_Result) /\ [][C11_Frame]_vars

C11_Witness ==
    /\ ret.op = "ReadAt" /\ file["o"] # 0
    /\ ret.pos > Len(written["o"]) /\ ret.len > 0 /\ ret.err = "EOF"
    /\ off["o"] > 0 /\ off["o"] < Len(written["o"])

\* C12 as claimed: with MaxBufSize > 0, whatever the Filebuf holds in memory and
\* whatever finite source it is given, a ReadFrom that has entered its loop leaves
\* it (here: by returning or by a panic) after finitely many calls of the reader.
C12_ReadFromTerminates == (pc["o"] = "rf") ~> (pc["o"] \in {"idle", "panic"})

\* C13 as claimed: the count ReadFrom returns is the number of bytes it took over
\* from the source in this call, whatever the Filebuf held before: the length of
\* the source when it succeeds, the bytes taken over so far when it fails.
C13_ReadFromCount ==
    (ret.op = "ReadFrom" /\ pc[ret.inst] = "idle") =>
        /\ ret.n = ret.len - Len(src[ret.inst])
        /\ ret.err = "nil" => ret.n = ret.len

\* C14 as claimed: between calls, also after a call that failed, no Filebuf holds
\* both bytes in memory and a file; with a file its memory region is empty.
C14_Exclusive ==
    \A i \in live : (pc[i] = "idle" /\ file[i] # 0) => BufLen(i) = 0 /\ buf[i] = NilBuf

\* The temporary file the Filebuf made by New has after the step
NewFile == ofd'[hnd'[file'["o"]].ofd]

\* The step is a move to the file (by Write or by ReadFrom)
Promotion == file["o"] = 0 /\ file'["o"] # 0

\* C15 as claimed: whatever IgnoreDeleteErr is, a move to the file writes no byte
\* to a temporary file whose name is still there.
C15_NoByteWhileLinked ==
    [][Promotion => (NewFile.linked => NewFile.data = <<>>)]_vars

\* C15 as amended: a move to the file creates the file, removes its name, then
\* copies.  With IgnoreDeleteErr false no byte is written to a file whose name is
\* still there: when Remove fails the move stops with an error before the copy.
\* With IgnoreDeleteErr true and Remove failing, the bytes are written to the
\* file under its name.  A move that succeeds has copied all bytes accepted.
C15_UnlinkThenCopy ==
    [][Promotion =>
        /\ (NewFile.linked /\ ~IgnoreDeleteErr) => (NewFile.data = <<>> /\ ret'.err = "err")
        /\ (NewFile.linked /\ IgnoreDeleteErr /\ ret'.err = "nil")
               => NewFile.data = written'["o"]
        /\ (~NewFile.linked /\ ret'.err = "nil") => NewFile.data = written'["o"]]_vars

C15_Witness ==
    /\ IgnoreDeleteErr /\ file["o"] # 0 /\ ret.err = "nil"
    /\ ret.op \in {"Write", "ReadFrom"}
    /\ ofd[hnd[file["o"]].ofd].linked
    /\ ofd[hnd[file["o"]].ofd].data = written["o"]
    /\ Len(written["o"]) > MaxBufSize

\* C16 as claimed: with MaxBufSize > 0, after Write and Rewind calls in any order
\* the Filebuf holds the bytes written, in the order of the calls, in memory and
\* in the file alike, and that is what is read back.
C16_WriteAppends ==
    MaxBufSize > 0 =>
        /\ Content("o") = written["o"]
        /\ done["o"] => got["o"] = written["o"]

\* What WriteTo returned last: the bytes from the cursor to the end, and their
\* number, with the cursor where the Read calls left it.
C17_Remainder ==
    (ret.op = "WriteTo" /\ pc["o"] = "idle") =>
        /\ ret.err = "nil"
        /\ off["o"] = Len(got["o"]) /\ off["o"] <= Len(written["o"])
        /\ ret.data = SubSeq(written["o"], off["o"] + 1, Len(written["o"]))
        /\ ret.n = Len(written["o"]) - off["o"]

\* A step of WriteTo leaves the cursor and the content alone, and a WriteTo
\* right after a WriteTo returns what the first returned.
C17_Frame ==
    /\ (pc["o"] = "wt" \/ pc'["o"] = "wt" \/ (ret'.op = "WriteTo" /\ ret' # ret))
           => UNCHANGED <<off, buf, file, mem, hnd, written, got, done>>
    /\ (ret.op = "WriteTo" /\ ret'.op = "WriteTo") => ret'.data = ret.data

CursorBound ==
    \A i \in live :
        /\ 0 <= off[i]
        /\ off[i] <= Len(Content(i))
        /\ Len(Content(i)) <= Len(written["o"])

\* C18 as claimed: between calls the cursor of every Filebuf is between 0 and the
\* number of bytes written, and every Read with the cursor at the end returns
\* count 0 with io.EOF.
C18_ReadAtEndIsEOF ==
    AllIdle =>
        /\ CursorBound
        /\ (ret.op = "Read" /\ Before >= Len(Content(ret.inst)))
               => ret.n = 0 /\ ret.err = "EOF"

\* C18 as amended: between calls the cursor of every Filebuf is between 0 and
\* the number of bytes written.  A Read with the cursor at the end returns count
\* 0 and leaves the cursor where it was; it reports io.EOF, except that in the
\* file a Read with an empty p reports no io.EOF.
C18_Cursor ==
    AllIdle =>
        /\ CursorBound
        /\ (ret.op = "Read" /\ Before >= Len(Content(ret.inst))) =>
               /\ ret.n = 0 /\ Before = off[ret.inst]
               /\ (file[ret.inst] = 0 \/ ret.len > 0) => ret.err = "EOF"
               /\ (file[ret.inst] # 0 /\ ret.len = 0) => ret.err = "nil"

C18_Witness ==
    /\ AllIdle /\ "c" \in live /\ file["c"] # 0
    /\ ret.op = "Read" /\ ret.inst = "c" /\ ret.len > 0
    /\ ret.n = 0 /\ ret.err = "EOF"
    /\ off["c"] = Len(Content("c")) /\ off["c"] > Len(written["c"])
    /\ off["o"] < off["c"]

\* C19 as claimed: a Filebuf in the file stays in the file (and its memory region
\* empty), a closed file stays closed, and the call that follows a Close, Write
\* and ReadFrom in particular, does not make the Filebuf hold bytes again.
C19_StateMachine ==
    [][/\ file["o"] # 0 => (file'["o"] = file["o"] /\ buf'["o"] = NilBuf)
       /\ (file["o"] # 0 /\ ~hnd[file["o"]].open) => ~hnd'[file["o"]].open
       /\ (ret.op = "Close" /\ ret.err = "nil") => Content("o")' = <<>>]_vars

\* The Read calls of each Filebuf since its last Rewind (for the clone: since
\* Clone) have returned the bytes that end at its cursor, without a gap.
C20_Reads ==
    \A i \in live :
        /\ Len(got[i]) <= off[i]
        /\ got[i] = Slice(written[i], off[i] - Len(got[i]), Len(got[i]))

\* Clone gives the clone the cursor and the bytes of the original and changes
\* nothing of the original, nor does a Clone that fails; afterwards a call on
\* one Filebuf leaves the cursor of the other alone.
C20_Step ==
    /\ ("c" \notin live /\ "c" \in live') =>
           /\ off'["c"] = off["o"] /\ got'["c"] = <<>>
           /\ Content("c")' = Content("o")
           /\ read("c", MaxRead, off["c"])' = read("o", MaxRead, off["o"])
           /\ off'["o"] = off["o"] /\ buf'["o"] = buf["o"] /\ file'["o"] = file["o"]
           /\ Content("o")' = Content("o")
           /\ UNCHANGED <<mem, ofd, written["o"], got["o"], done["o"]>>
    /\ (ret'.op = "Clone" /\ ret'.err = "err") =>
           UNCHANGED <<live, buf, file, off, mem, hnd, ofd, written, got, done>>
    /\ ("c" \in live /\ off'["o"] # off["o"]) => off'["c"] = off["c"]
    /\ ("c" \in live /\ off'["c"] # off["c"]) => off'["o"] = off["o"]

\* C20: Clone copies the cursor: after k bytes were consumed by Read, the first
\* Read of the clone returns the bytes from offset k on, until the clone is
\* rewound; from then on the two cursors move independently; and Clone leaves the
\* cursor, the content and the representation of the original as they were,
\* also when duplicating the descriptor fails.
C20_Clone == [](C20_Reads) /\ [][C20_Step]_vars

C20_Witness ==
    /\ "c" \in live /\ file["c"] # 0
    /\ got["c"] # <<>> /\ off["c"] - Len(got["c"]) > 0
    /\ ret.inst = "c" /\ ret.op = "Read" /\ ret.data = got["c"]
    /\ off["o"] > off["c"]

====
